---------------------------- MODULE Spec2Model ----------------------------
(***************************************************************************)
(* Model of super_gradients' BaseKeypointsDataset                          *)
(* (training/datasets/pose_estimation_datasets/base_keypoints.py):         *)
(*   __getitem__      load_sample -> apply_transforms -> filter_joints     *)
(*                    -> target_generator -> (image, targets, extras)      *)
(*   apply_transforms the loop over the transform list, with the recursive *)
(*                    call made for every additional sample                *)
(*   filter_joints    the per-instance filter, with compute_area           *)
(* and of KeypointsCollate.__call__, which merges a batch of the triples   *)
(* __getitem__ returns.                                                    *)
(*                                                                         *)
(* A sample is a record.  Optional attributes (bboxes, areas,              *)
(* additional_samples) hold None or Some(value).  Two fields are history   *)
(* fields that the Python objects do not have: source_index (the index the *)
(* sample was loaded from) and applied (the ids of the transforms that     *)
(* have been called on the sample, in call order).                         *)
(***************************************************************************)
EXTENDS Integers, Sequences, FiniteSets, TLC

VARIABLES
    transforms,         \* self.transforms.transforms
    min_instance_area,  \* self.min_instance_area
    dataset_len,        \* len(self)
    index,              \* the argument of __getitem__
    pc,                 \* position of __getitem__
    stack,              \* the active apply_transforms calls, outermost first
    sample,             \* the local `sample` of __getitem__ / filter_joints
    loads,              \* number of load_sample calls made so far
    drawn,              \* the indices random.sample returned for the current transform
    invoked,            \* the last transform call: the transform and its argument
    locals,             \* the masks computed by the last filter_joints call
    before,             \* the sample as it was passed to the last filter_joints call
    calls,              \* number of filter_joints calls made on `sample`
    result,             \* the value returned by __getitem__
    generated,          \* the samples self.target_generator was called with, in order
    batch,              \* the argument of KeypointsCollate.__call__
    collated            \* the value returned by KeypointsCollate.__call__

\* the variables of KeypointsCollate.__call__
collate_vars == <<batch, collated>>

vars == <<transforms, min_instance_area, dataset_len, index, pc, stack, sample,
          loads, drawn, invoked, locals, before, calls, result, generated,
          collate_vars>>

----------------------------------------------------------------------------
(* Bounds of the model *)

\* longest transform list
MaxLen == 3
\* largest additional_samples_count of a transform
MaxCount == 2
\* largest dataset length len(self)
MaxDatasetLen == 2
\* largest number of instances of an enumerated sample
MaxInstances == 2
\* largest min_instance_area; provided areas range over 0..MaxArea+1
MaxArea == 1
\* number of successive filter_joints calls on one sample
MaxCalls == 2
\* largest batch passed to KeypointsCollate
MaxBatch == 2

----------------------------------------------------------------------------
(* Optional values and small helpers *)

None == <<>>
Some(x) == <<x>>
IsNone(o) == o = <<>>
Value(o) == o[1]

MaxOf(S) == CHOOSE m \in S : \A x \in S : x <= m
MinOf(S) == CHOOSE m \in S : \A x \in S : m <= x

\* arr[mask] for a boolean mask of the same length: the selected entries, in order
RECURSIVE Select(_, _)
Select(arr, mask) ==
    IF Len(arr) = 0 THEN <<>>
    ELSE IF Head(mask) THEN <<Head(arr)>> \o Select(Tail(arr), Tail(mask))
         ELSE Select(Tail(arr), Tail(mask))

----------------------------------------------------------------------------
(* filter_joints and compute_area *)

\* a tensor unpacked as if it were an array [H, W, C]
Rows_AsArray(image) == image.shape[1]

\* rows, cols as unpacked from sample.image.shape: a tensor is [C, H, W], an
\* array is [H, W, C]
Rows(image) == IF image.is_tensor THEN image.shape[2] ELSE image.shape[1]
Cols(image) == IF image.is_tensor THEN image.shape[3] ELSE image.shape[2]

\* outside_image_mask[i][j]: joint j of instance i lies outside the image
OutsideImageMask(s) ==
    [i \in 1..Len(s.joints) |->
        [j \in 1..Len(s.joints[i]) |->
            \/ s.joints[i][j][1] < 0
            \/ s.joints[i][j][2] < 0
            \/ s.joints[i][j][1] >= Cols(s.image)
            \/ s.joints[i][j][2] >= Rows(s.image)]]

\* sample.joints after sample.joints[outside_image_mask, 2] = 0
UpdateVisibility(s) ==
    LET outside == OutsideImageMask(s)
    IN [i \in 1..Len(s.joints) |->
          [j \in 1..Len(s.joints[i]) |->
              IF outside[i][j]
              THEN <<s.joints[i][j][1], s.joints[i][j][2], 0>>
              ELSE s.joints[i][j]]]

\* visible_joints_mask = sample.joints[:, :, 2] > 0
VisibleJointsMask(joints) ==
    [i \in 1..Len(joints) |-> [j \in 1..Len(joints[i]) |-> joints[i][j][3] > 0]]

\* the presence test with >= 0 in place of > 0
HasVisibleJoint_Inclusive(row) == Cardinality({j \in 1..Len(row) : row[j]}) >= 0

\* np.sum(visible_joints_mask, axis=-1) > 0, for one instance
HasVisibleJoint(row) == Cardinality({j \in 1..Len(row) : row[j]}) > 0

\* compute_area: (max x - min x) * (max y - min y) over all joints of each instance
compute_area(joints) ==
    [i \in 1..Len(joints) |->
        LET xs == {joints[i][j][1] : j \in 1..Len(joints[i])}
            ys == {joints[i][j][2] : j \in 1..Len(joints[i])}
        IN (MaxOf(xs) - MinOf(xs)) * (MaxOf(ys) - MinOf(ys))]

\* the areas the area test reads: the sample's own when it carries them, else
\* computed from joints, the sample's joints at that point
AreasUsed(s, joints) ==
    IF IsNone(s.areas) THEN compute_area(joints)
    ELSE LET areas == Value(s.areas)
         IN IF Len(areas) = 1 THEN [i \in 1..Len(joints) |-> areas[1]] ELSE areas

\* the area test with >= in place of >
KeepArea_Inclusive(a, t) == a >= t

\* keep_area_mask, for one instance: areas > self.min_instance_area
KeepArea(a, t) == a > t

\* a presence test that reads the visibility flags as they were before the
\* update of the joints outside the image
KeepMask_StalePresence(s, joints, t) ==
    LET visible == VisibleJointsMask(s.joints)
        areas == AreasUsed(s, joints)
    IN [i \in 1..Len(joints) |->
          /\ HasVisibleJoint(visible[i])
          /\ (t > 0 => KeepArea(areas[i], t))]

\* keep_mask, after the optional `keep_mask &= keep_area_mask`, where joints
\* are the sample's joints after the visibility update
KeepMask(s, joints, t) ==
    LET visible == VisibleJointsMask(joints)
        areas == AreasUsed(s, joints)
    IN [i \in 1..Len(joints) |->
          /\ HasVisibleJoint(visible[i])
          /\ (t > 0 => KeepArea(areas[i], t))]

\* the masks filter_joints computes on its way
FilterLocals(s, t) ==
    LET joints == UpdateVisibility(s)
    IN [outside_image_mask  |-> OutsideImageMask(s),
        visible_joints_mask |-> VisibleJointsMask(joints),
        keep_mask           |-> KeepMask(s, joints, t)]

\* an optional per-instance array left as it was
Prune_Unpruned(o, mask) == o

\* the pruning of one optional per-instance array
Prune(o, mask) == IF IsNone(o) THEN None ELSE Some(Select(Value(o), mask))

filter_joints(s, t) ==
    LET joints == UpdateVisibility(s)
        keep_mask == KeepMask(s, joints, t)
    IN [s EXCEPT !.joints   = Select(joints, keep_mask),
                 !.is_crowd = Select(s.is_crowd, keep_mask),
                 !.bboxes   = Prune(s.bboxes, keep_mask),
                 !.areas    = Prune(s.areas, keep_mask)]

\* an in-place `out &= operand` of one-dimensional arrays: the operand is
\* broadcast to the length of out when it has that length or length 1
BroadcastsInPlace(out_len, operand_len) ==
    operand_len = out_len \/ operand_len = 1

\* an index that raises only for an array longer than the mask
IndexFails_Truncating(arr_len, mask_len) == arr_len > mask_len

\* arr[keep_mask] raises IndexError unless the boolean mask has the length of
\* the array
IndexFails(arr_len, mask_len) == arr_len # mask_len

\* the line of filter_joints that raises on sample s, 0 when none does
FailingLine(s, t) ==
    LET n == Len(s.joints)
    IN IF t > 0 /\ ~IsNone(s.areas) /\ ~BroadcastsInPlace(n, Len(Value(s.areas)))
       THEN 133
       ELSE IF IndexFails(Len(s.is_crowd), n) THEN 136
       ELSE IF ~IsNone(s.bboxes) /\ IndexFails(Len(Value(s.bboxes)), n) THEN 138
       ELSE IF ~IsNone(s.areas) /\ IndexFails(Len(Value(s.areas)), n) THEN 140
       ELSE 0

----------------------------------------------------------------------------
(* The collaborators of the dataset: the sample source, the transforms and  *)
(* the target generator                                                     *)

\* self.transforms.transforms for a list of additional_samples_count values:
\* the transform at position i has id i
TransformList(counts) ==
    [i \in 1..Len(counts) |-> [id |-> i, additional_samples_count |-> counts[i]]]

TransformLists ==
    {TransformList(counts) : counts \in UNION {[1..n -> 0..MaxCount] : n \in 0..MaxLen}}

\* load_sample(index): a fresh sample of the dataset.  Every image is a 2 x 2
\* array [H, W, C]; sample i has two instances, the first at x = i
load_sample(i) ==
    [source_index       |-> i,
     image              |-> [is_tensor |-> FALSE, shape |-> <<2, 2, 3>>],
     joints             |-> << << <<i, 0, 2>>, <<i, 1, 1>> >>,
                               << <<0, 0, 2>>, <<1, 1, 0>> >> >>,
     is_crowd           |-> <<FALSE, TRUE>>,
     bboxes             |-> Some(<< <<i, 0, 0, 1>>, <<0, 0, 1, 1>> >>),
     areas              |-> IF i % 2 = 0 THEN None ELSE Some(<<1, 2>>),
     additional_samples |-> None,
     applied            |-> <<>>]

\* the effect of a transform on the joints: a shift by one pixel along x
Translate(joints) ==
    [i \in 1..Len(joints) |->
        [j \in 1..Len(joints[i]) |->
            <<joints[i][j][1] + 1, joints[i][j][2], joints[i][j][3]>>]]

\* t(sample): the samples a call of transform t on s can return.  A transform
\* that consumes additional samples may clear sample.additional_samples or
\* leave it as it is
TransformResults(t, s) ==
    LET out == [s EXCEPT !.joints = Translate(s.joints),
                         !.applied = Append(s.applied, t.id)]
    IN IF t.additional_samples_count = 0
       THEN {out}
       ELSE {out, [out EXCEPT !.additional_samples = None]}

\* self.target_generator(sample)
target_generator(s) == [of_joints |-> s.joints]

\* random.sample(range(n), k): the k-tuples of pairwise distinct indices, k <= n
RandomSample(n, k) ==
    {idx \in [1..k -> 0..(n - 1)] : \A a, b \in 1..k : a # b => idx[a] # idx[b]}

----------------------------------------------------------------------------
(* apply_transforms, one stack frame per active call *)

Frame(s, ts) ==
    [sample                    |-> s,
     transforms                |-> ts,
     i                         |-> 1,       \* position of the for loop
     applied_transforms_so_far |-> <<>>,
     additional_samples        |-> <<>>,
     done                      |-> 0,       \* additional samples already processed
     phase                     |-> "loop"]  \* "loop" | "additional"

Top == stack[Len(stack)]
Depth == Len(stack)
Current == Top.transforms[Top.i]
WithTop(f) == [stack EXCEPT ![Len(stack)] = f]

\* a loop that forgets to record the transform it has applied
AppliedAfterPlain_NotRecorded(f, t) == f.applied_transforms_so_far

\* what the branch for additional_samples_count = 0 appends to the prefix
AppliedAfterPlain(f, t) == Append(f.applied_transforms_so_far, t)

\* a loop that records the combining transform as well
AppliedAfterCombining_Recorded(f, t) == Append(f.applied_transforms_so_far, t)

\* what the branch for additional_samples_count > 0 leaves the prefix as
AppliedAfterCombining(f, t) == f.applied_transforms_so_far

\* a loop that skips the transform after each one it applies
NextPosition_Skipping(f) == f.i + 2

\* the position of the for loop after one pass through its body
NextPosition(f) == f.i + 1

\* a recursive call given the list's prefix instead of the recorded transforms
RecursiveTransforms_ListPrefix(f) == SubSeq(f.transforms, 1, f.i - 1)

\* the transform list of the recursive call for an additional sample
RecursiveTransforms(f) == f.applied_transforms_so_far

\* a draw with replacement: random.choices instead of random.sample
DrawIndices_WithReplacement(n, k) == [1..k -> 0..(n - 1)]

\* the indices of the additional samples of a transform with count k
DrawIndices(n, k) == RandomSample(n, k)

----------------------------------------------------------------------------
(* __getitem__: one call, on a dataset built with any transform list *)

Init ==
    /\ transforms \in TransformLists
    /\ min_instance_area \in {0, 1}
    /\ dataset_len \in 1..MaxDatasetLen
    /\ index \in 0..(dataset_len - 1)
    /\ pc = "idle"
    /\ stack = <<>>
    /\ sample = None
    /\ loads = 0
    /\ drawn = <<>>
    /\ invoked = None
    /\ locals = None
    /\ before = None
    /\ calls = 0
    /\ result = None
    /\ generated = <<>>
    /\ batch = <<>>
    /\ collated = None

\* sample = self.load_sample(index), then the call of apply_transforms
GetItem ==
    /\ pc = "idle"
    /\ pc' = "apply_transforms"
    /\ loads' = loads + 1
    /\ stack' = <<Frame(load_sample(index), transforms)>>
    /\ UNCHANGED <<collate_vars, generated,
                   transforms, min_instance_area, dataset_len, index, sample,
                   drawn, invoked, locals, before, calls, result>>

\* the branch t.additional_samples_count == 0 of the loop body
ApplyPlain ==
    /\ pc = "apply_transforms"
    /\ Top.phase = "loop"
    /\ Top.i <= Len(Top.transforms)
    /\ Current.additional_samples_count = 0
    /\ \E out \in TransformResults(Current, Top.sample) :
          stack' = WithTop([Top EXCEPT
                                !.sample = out,
                                !.applied_transforms_so_far = AppliedAfterPlain(Top, Current),
                                !.i = NextPosition(Top)])
    /\ invoked' = Some([t |-> Current, arg |-> Top.sample, depth |-> Depth])
    /\ UNCHANGED <<collate_vars, generated,
                   transforms, min_instance_area, dataset_len, index, pc, sample,
                   loads, drawn, locals, before, calls, result>>

\* random.sample raises ValueError when the count exceeds len(self): the
\* exception leaves every active apply_transforms call and __getitem__
RaiseInsufficient ==
    /\ pc = "apply_transforms"
    /\ Top.phase = "loop"
    /\ Top.i <= Len(Top.transforms)
    /\ Current.additional_samples_count > 0
    /\ DrawIndices(dataset_len, Current.additional_samples_count) = {}
    /\ pc' = "error"
    /\ stack' = <<>>
    /\ UNCHANGED <<collate_vars, generated,
                   transforms, min_instance_area, dataset_len, index, sample,
                   loads, drawn, invoked, locals, before, calls, result>>

\* additional_samples = [self.load_sample(index) for index in random.sample(...)]
LoadAdditional ==
    /\ pc = "apply_transforms"
    /\ Top.phase = "loop"
    /\ Top.i <= Len(Top.transforms)
    /\ Current.additional_samples_count > 0
    /\ \E idx \in DrawIndices(dataset_len, Current.additional_samples_count) :
          /\ drawn' = idx
          /\ loads' = loads + Len(idx)
          /\ stack' = WithTop([Top EXCEPT
                                !.additional_samples = [a \in 1..Len(idx) |-> load_sample(idx[a])],
                                !.done = 0,
                                !.phase = "additional"])
    /\ UNCHANGED <<collate_vars, generated,
                   transforms, min_instance_area, dataset_len, index, pc, sample,
                   invoked, locals, before, calls, result>>

\* self.apply_transforms(sample, applied_transforms_so_far) for the next
\* additional sample
CallRecursive ==
    /\ pc = "apply_transforms"
    /\ Top.phase = "additional"
    /\ Top.done < Len(Top.additional_samples)
    /\ stack' = Append(stack, Frame(Top.additional_samples[Top.done + 1],
                                    RecursiveTransforms(Top)))
    /\ UNCHANGED <<collate_vars, generated,
                   transforms, min_instance_area, dataset_len, index, pc, sample,
                   loads, drawn, invoked, locals, before, calls, result>>

\* `return sample` of a recursive call: its result replaces the additional sample
ReturnRecursive ==
    /\ pc = "apply_transforms"
    /\ Depth > 1
    /\ Top.phase = "loop"
    /\ Top.i > Len(Top.transforms)
    /\ LET caller == stack[Depth - 1]
       IN stack' = Append(SubSeq(stack, 1, Depth - 2),
                          [caller EXCEPT
                              !.additional_samples[caller.done + 1] = Top.sample,
                              !.done = @ + 1])
    /\ UNCHANGED <<collate_vars, generated,
                   transforms, min_instance_area, dataset_len, index, pc, sample,
                   loads, drawn, invoked, locals, before, calls, result>>

\* sample.additional_samples = additional_samples; sample = t(sample)
ApplyCombining ==
    /\ pc = "apply_transforms"
    /\ Top.phase = "additional"
    /\ Top.done = Len(Top.additional_samples)
    /\ LET arg == [Top.sample EXCEPT !.additional_samples = Some(Top.additional_samples)]
       IN /\ invoked' = Some([t |-> Current, arg |-> arg, depth |-> Depth])
          /\ \E out \in TransformResults(Current, arg) :
                stack' = WithTop([Top EXCEPT
                                    !.sample = out,
                                    !.applied_transforms_so_far = AppliedAfterCombining(Top, Current),
                                    !.additional_samples = <<>>,
                                    !.done = 0,
                                    !.phase = "loop",
                                    !.i = NextPosition(Top)])
    /\ drawn' = <<>>
    /\ UNCHANGED <<collate_vars, generated,
                   transforms, min_instance_area, dataset_len, index, pc, sample,
                   loads, locals, before, calls, result>>

\* `return sample` of the call made by __getitem__
ReturnTransformed ==
    /\ pc = "apply_transforms"
    /\ Depth = 1
    /\ Top.phase = "loop"
    /\ Top.i > Len(Top.transforms)
    /\ sample' = Top.sample
    /\ stack' = <<>>
    /\ pc' = "filter_joints"
    /\ UNCHANGED <<collate_vars, generated,
                   transforms, min_instance_area, dataset_len, index,
                   loads, drawn, invoked, locals, before, calls, result>>

\* sample = self.filter_joints(sample)
FilterTransformed ==
    /\ pc = "filter_joints"
    /\ before' = Some(sample)
    /\ locals' = Some(FilterLocals(sample, min_instance_area))
    /\ sample' = filter_joints(sample, min_instance_area)
    /\ calls' = calls + 1
    /\ pc' = "target_generator"
    /\ UNCHANGED <<collate_vars, generated,
                   transforms, min_instance_area, dataset_len, index, stack,
                   loads, drawn, invoked, result>>

\* an extras dict built from the sample as it was before filter_joints
Extras_BeforeFilter(s) ==
    [gt_joints   |-> Value(before).joints,
     gt_bboxes   |-> Value(before).bboxes,
     gt_areas    |-> Value(before).areas,
     gt_is_crowd |-> Value(before).is_crowd]

\* the dict of the return statement of __getitem__
Extras(s) ==
    [gt_joints   |-> s.joints,
     gt_bboxes   |-> s.bboxes,
     gt_areas    |-> s.areas,
     gt_is_crowd |-> s.is_crowd]

\* a target generator called on the sample as it was before filter_joints
GeneratorArgument_BeforeFilter(s) == Value(before)

\* the argument of self.target_generator
GeneratorArgument(s) == s

\* targets = self.target_generator(sample) and the return statement
GenerateTargets ==
    /\ pc = "target_generator"
    /\ generated' = Append(generated, GeneratorArgument(sample))
    /\ result' = Some([image   |-> sample.image,
                       targets |-> target_generator(GeneratorArgument(sample)),
                       extras  |-> Extras(sample)])
    /\ pc' = "done"
    /\ UNCHANGED <<collate_vars,
                   transforms, min_instance_area, dataset_len, index, stack, sample,
                   loads, drawn, invoked, locals, before, calls>>

Next ==
    \/ GetItem
    \/ ApplyPlain
    \/ RaiseInsufficient
    \/ LoadAdditional
    \/ CallRecursive
    \/ ReturnRecursive
    \/ ApplyCombining
    \/ ReturnTransformed
    \/ FilterTransformed
    \/ GenerateTargets

Spec == Init /\ [][Next]_vars

\* a call that has started runs to its end
FairSpec == Spec /\ WF_vars(Next)

----------------------------------------------------------------------------
(* filter_joints on its own: any well-formed sample, any min_instance_area, *)
(* called up to MaxCalls times in a row on the same sample                  *)

\* images [H, W, C] and tensors [C, H, W] of two sizes
ImageSizes == {<<1, 2>>, <<2, 2>>}
Images ==
    {[is_tensor |-> b, shape |-> IF b THEN <<3, hw[1], hw[2]>> ELSE <<hw[1], hw[2], 3>>] :
        b \in BOOLEAN, hw \in ImageSizes}

\* instances of two joints.  The first lies at the origin, absent or visible,
\* or below the image with the label visible; the second lies left of, above,
\* inside or below (by the image height), or right of the image
FirstJoints == {<<0, 0, 0>>, <<0, 0, 2>>, <<1, 2, 2>>}
SecondJoints == {<<-1, 0, 2>>, <<0, -1, 1>>, <<0, 1, 1>>, <<2, 1, 2>>}
Instances == {<<a, b>> : a \in FirstJoints, b \in SecondJoints}

\* the values of a provided areas array
AreaValues == {1, 2}

\* a well-formed sample: every per-instance array has one entry per instance
MakeSample(img, js, ar, with_bboxes) ==
    [source_index       |-> 0,
     image              |-> img,
     joints             |-> js,
     is_crowd           |-> [i \in 1..Len(js) |-> i % 2 = 0],
     bboxes             |-> IF with_bboxes
                            THEN Some([i \in 1..Len(js) |-> <<i, i, i + 1, i + 1>>])
                            ELSE None,
     areas              |-> ar,
     additional_samples |-> None,
     applied            |-> <<>>]

\* the instances of the samples with an array of the wrong length: one that
\* the filter keeps and one that it removes
MismatchInstances ==
    {<<<<0, 0, 2>>, <<0, 1, 1>>>>, <<<<0, 0, 0>>, <<-1, 0, 2>>>>}
PerInstanceArrays == {"is_crowd", "bboxes", "areas"}

\* a sample whose per-instance array `field` has m entries, m different from
\* the number of instances
MismatchedSample(img, js, field, m, v) ==
    LET s == MakeSample(img, js, None, TRUE)
    IN CASE field = "is_crowd" -> [s EXCEPT !.is_crowd = [i \in 1..m |-> i % 2 = 0]]
         [] field = "bboxes" ->
              [s EXCEPT !.bboxes = Some([i \in 1..m |-> <<i, i, i + 1, i + 1>>])]
         [] field = "areas" -> [s EXCEPT !.areas = Some([i \in 1..m |-> v])]

InitFilter ==
    /\ \E n \in 0..MaxInstances :
          \/ \E img \in Images, js \in [1..n -> Instances], bb \in BOOLEAN :
                \E ar \in {None} \cup {Some(a) : a \in [1..n -> AreaValues]} :
                   sample = MakeSample(img, js, ar, bb)
          \/ \E img \in Images, js \in [1..n -> MismatchInstances] :
                \E field \in PerInstanceArrays, v \in AreaValues :
                   \E m \in (0..(MaxInstances + 1)) \ {n} :
                      sample = MismatchedSample(img, js, field, m, v)
    /\ min_instance_area \in 0..MaxArea
    /\ transforms = <<>>
    /\ dataset_len = 1
    /\ index = 0
    /\ pc = "filter_only"
    /\ stack = <<>>
    /\ loads = 0
    /\ drawn = <<>>
    /\ invoked = None
    /\ locals = None
    /\ before = None
    /\ calls = 0
    /\ result = None
    /\ generated = <<>>
    /\ batch = <<>>
    /\ collated = None

\* sample = self.filter_joints(sample)
FilterJoints ==
    /\ pc = "filter_only"
    /\ calls < MaxCalls
    /\ FailingLine(sample, min_instance_area) = 0
    /\ before' = Some(sample)
    /\ locals' = Some(FilterLocals(sample, min_instance_area))
    /\ sample' = filter_joints(sample, min_instance_area)
    /\ calls' = calls + 1
    /\ UNCHANGED <<collate_vars, generated,
                   transforms, min_instance_area, dataset_len, index, pc, stack,
                   loads, drawn, invoked, result>>

\* filter_joints raises: the exception leaves the call without a return value
FilterRaises ==
    /\ pc = "filter_only"
    /\ calls < MaxCalls
    /\ FailingLine(sample, min_instance_area) # 0
    /\ pc' = "error"
    /\ result' = Some([raised |-> FailingLine(sample, min_instance_area)])
    /\ UNCHANGED <<collate_vars, generated,
                   transforms, min_instance_area, dataset_len, index, stack, sample,
                   loads, drawn, invoked, locals, before, calls>>

NextFilter == FilterJoints \/ FilterRaises

SpecFilter == InitFilter /\ [][NextFilter]_vars

----------------------------------------------------------------------------
(* Properties of apply_transforms, checked under Spec and FairSpec *)

Count(k) == transforms[k].additional_samples_count
IsPlain(t) == t.additional_samples_count = 0
AllPlain == \A k \in 1..Len(transforms) : Count(k) = 0

\* the ids of the transforms of a list, in list order
Ids(ts) == [k \in 1..Len(ts) |-> ts[k].id]

\* the ids of the count-0 transforms before position k of the list
PlainIdsBefore(k) == Ids(SelectSeq(SubSeq(transforms, 1, k - 1), IsPlain))

\* the last transform call, its argument and the additional samples attached to it
LastCall == Value(invoked)
Attached == Value(LastCall.arg.additional_samples)

\* C1: with the list starting [T1(0), T2(0), T3(2)], at the call of T3 the
\* primary sample carries exactly two additional samples, and each has had T1
\* and then T2 called on it, once each, and nothing else
C1_AuxiliaryScope ==
    (/\ invoked # None
     /\ Len(transforms) >= 3
     /\ Count(1) = 0 /\ Count(2) = 0 /\ Count(3) = 2
     /\ LastCall.t.id = 3)
    => /\ LastCall.arg.additional_samples # None
       /\ Len(Attached) = 2
       /\ \A a \in 1..Len(Attached) : Attached[a].applied = <<1, 2>>
       /\ LastCall.arg.applied = <<1, 2>>

C1_Witness ==
    /\ invoked # None
    /\ Len(transforms) >= 3
    /\ Count(1) = 0 /\ Count(2) = 0 /\ Count(3) = 2
    /\ LastCall.t.id = 3
    /\ Len(Attached) = 2

\* C2 as stated: at the call of every transform with count > 0, each
\* additional sample has had the same transforms called on it as the primary
\* sample has
C2_AuxiliarySameAsPrimary ==
    (invoked # None /\ LastCall.t.additional_samples_count > 0)
    => \A a \in 1..Len(Attached) : Attached[a].applied = LastCall.arg.applied

\* C2, amended: at the call of every transform T with count > 0, the primary
\* sample carries count additional samples and each has had called on it
\* exactly the count-0 transforms that precede T in the list, in list order:
\* the transforms already run on the primary sample, less those with count > 0
C2_AuxiliaryPlainPrefix ==
    (invoked # None /\ LastCall.t.additional_samples_count > 0)
    => /\ LastCall.arg.additional_samples # None
       /\ Len(Attached) = LastCall.t.additional_samples_count
       /\ LastCall.arg.applied = [k \in 1..(LastCall.t.id - 1) |-> k]
       /\ \A a \in 1..Len(Attached) :
             Attached[a].applied = PlainIdsBefore(LastCall.t.id)

C2_Witness ==
    /\ invoked # None
    /\ LastCall.t.additional_samples_count > 0
    /\ LastCall.t.id = 3
    /\ Count(1) > 0
    /\ Count(2) = 0
    /\ \A a \in 1..Len(Attached) : Attached[a].applied = <<2>>

\* T_n(...T_1(s)) for transforms that return one sample
RECURSIVE Compose(_, _)
Compose(ts, s) ==
    IF Len(ts) = 0 THEN s
    ELSE Compose(Tail(ts), CHOOSE out \in TransformResults(Head(ts), s) : TRUE)

\* C3: when every transform of the list has count 0, apply_transforms returns
\* T_n(...T_1(S)): every transform called once, in list order; and the only
\* load_sample call is the one __getitem__ made for S
C3_PlainComposition ==
    AllPlain =>
       /\ loads <= 1
       /\ pc = "filter_joints" =>
             /\ sample = Compose(transforms, load_sample(index))
             /\ sample.applied = Ids(transforms)

C3_Witness ==
    /\ AllPlain
    /\ Len(transforms) >= 2
    /\ pc = "filter_joints"
    /\ sample.applied = <<1, 2>>

\* an upper bound on the steps one additional sample costs the calling frame:
\* the call, at most one step per transform of the list, and the return
Budget(f) == Len(f.transforms) + 2

\* an upper bound on the steps of the loop of frame f from position k on
RECURSIVE LoopSteps(_, _)
LoopSteps(f, k) ==
    IF k > Len(f.transforms) THEN 0
    ELSE LoopSteps(f, k + 1)
         + (IF IsPlain(f.transforms[k]) THEN 1
            ELSE 2 + f.transforms[k].additional_samples_count * Budget(f))

\* an upper bound on the steps frame d of the stack has left, its return
\* included, the steps of the frame above it left out
FrameSteps(d) ==
    LET f == stack[d]
        called == IF d < Depth THEN 1 ELSE 0
    IN IF f.phase = "loop"
       THEN LoopSteps(f, f.i) + 1
       ELSE (Len(f.additional_samples) - f.done - called) * Budget(f)
            + 1 + LoopSteps(f, f.i + 1) + 1

RECURSIVE StackSteps(_)
StackSteps(d) == IF d = 0 THEN 0 ELSE FrameSteps(d) + StackSteps(d - 1)

\* an upper bound on the steps the __getitem__ call has left
Remaining ==
    CASE pc = "idle" -> 4 + LoopSteps(Frame(None, transforms), 1)
      [] pc = "apply_transforms" -> 2 + StackSteps(Depth)
      [] pc = "filter_joints" -> 2
      [] pc = "target_generator" -> 1
      [] OTHER -> 0

\* C4: every __getitem__ call ends: each step lowers a bound on the steps that
\* are left, the bound never falls below 0, and a call that has neither
\* returned nor raised can take a step.  A recursive apply_transforms call is
\* given count-0 transforms only, so there are never more than two active
\* calls: the one __getitem__ made and one for an additional sample
C4_Terminates ==
    /\ [][Remaining' < Remaining]_vars
    /\ [](/\ Remaining >= 0
          /\ pc \notin {"done", "error"} => ENABLED Next
          /\ Depth <= 2
          /\ Depth = 2 => \A k \in 1..Len(Top.transforms) : IsPlain(Top.transforms[k]))

\* C4 as a liveness property: under FairSpec every call returns or raises
C4_EventuallyEnds == <>(pc \in {"done", "error"})

C4_Witness ==
    /\ pc = "done"
    /\ loads > 2
    /\ \E k \in 1..Len(transforms) : Count(k) > 0 /\ \E m \in 1..(k - 1) : Count(m) > 0

\* C5: a transform whose count exceeds len(self) is never called and the
\* __getitem__ call ends in an error; otherwise the drawn indices are count
\* pairwise distinct indices of 0..len(self)-1 and the additional samples
\* are the samples loaded from them, in that order
C5_InsufficientSamples ==
    /\ invoked # None => LastCall.t.additional_samples_count <= dataset_len
    /\ (\E k \in 1..Len(transforms) : Count(k) > dataset_len)
          => pc \notin {"filter_joints", "target_generator", "done"}
    /\ \A a, b \in 1..Len(drawn) : a # b => drawn[a] # drawn[b]
    /\ \A a \in 1..Len(drawn) : drawn[a] \in 0..(dataset_len - 1)
    /\ (Depth >= 1 /\ stack[1].phase = "additional")
          => /\ Len(drawn) = stack[1].transforms[stack[1].i].additional_samples_count
             /\ Len(stack[1].additional_samples) = Len(drawn)
             /\ \A a \in 1..Len(drawn) :
                   stack[1].additional_samples[a].source_index = drawn[a]

C5_Witness ==
    /\ pc = "error"
    /\ loads > 1
    /\ \E k \in 1..Len(transforms) : Count(k) > dataset_len

----------------------------------------------------------------------------
(* Properties of filter_joints, checked under SpecFilter *)

\* the frame of an image: a tensor is [C, H, W], an array is [H, W, C]
FrameHeight(image) == IF image.is_tensor THEN image.shape[2] ELSE image.shape[1]
FrameWidth(image) == IF image.is_tensor THEN image.shape[3] ELSE image.shape[2]
InFrame(image, joint) ==
    /\ 0 <= joint[1] /\ joint[1] < FrameWidth(image)
    /\ 0 <= joint[2] /\ joint[2] < FrameHeight(image)

\* the sample passed to the last filter_joints call and the masks of that call
Passed == Value(before)
Masks == Value(locals)
InstancesOf(s) == 1..Len(s.joints)
JointsOf(s, i) == 1..Len(s.joints[i])

\* instance i of s has a joint that is labelled present and lies in the frame
Present(s, i) ==
    \E j \in JointsOf(s, i) : s.joints[i][j][3] > 0 /\ InFrame(s.image, s.joints[i][j])

\* every joint of instance i of s lies outside the frame
AllOutside(s, i) == \A j \in JointsOf(s, i) : ~InFrame(s.image, s.joints[i][j])

\* the extent of instance i of s along coordinate c, over all its joints
Extent(s, i, c) ==
    CHOOSE d \in 0..10 :
        /\ \E p, q \in JointsOf(s, i) : d = s.joints[i][p][c] - s.joints[i][q][c]
        /\ \A p, q \in JointsOf(s, i) : s.joints[i][p][c] - s.joints[i][q][c] <= d

\* the area the claim names for instance i of s
ClaimedArea(s, i) ==
    IF IsNone(s.areas) THEN Extent(s, i, 1) * Extent(s, i, 2) ELSE Value(s.areas)[i]

\* the k-th instance, in the original order, that a keep mask retains
Survivor(mask, k) ==
    CHOOSE i \in 1..Len(mask) :
        mask[i] /\ Cardinality({h \in 1..i : mask[h]}) = k

\* C6: filter_joints is idempotent: a second call on its own result leaves
\* joints (with the visibility flags), is_crowd, bboxes and areas as they are
C6_FilterIdempotent ==
    calls >= 2 =>
       /\ sample.joints = Passed.joints
       /\ sample.is_crowd = Passed.is_crowd
       /\ sample.bboxes = Passed.bboxes
       /\ sample.areas = Passed.areas

C6_Witness ==
    /\ calls = 2
    /\ min_instance_area > 0
    /\ Len(sample.joints) = 2
    /\ ~IsNone(sample.areas)
    /\ IsNone(sample.bboxes)
    /\ \E i \in InstancesOf(sample) : \E j \in JointsOf(sample, i) :
          ~InFrame(sample.image, sample.joints[i][j])

\* C7: after filter_joints every remaining instance has a joint with
\* visibility > 0, and that joint lies in the frame; the result may have no
\* instance at all, and then every per-instance array is empty
C7_SurvivorsVisible ==
    calls >= 1 =>
       /\ \A i \in InstancesOf(sample) : Present(sample, i)
       /\ Len(sample.joints) = 0 =>
             /\ sample.is_crowd = <<>>
             /\ sample.bboxes \in {None, Some(<<>>)}
             /\ sample.areas \in {None, Some(<<>>)}

C7_Witness ==
    /\ calls = 1
    /\ Len(Passed.joints) = 2
    /\ Len(sample.joints) = 1
    /\ \A j \in JointsOf(sample, 1) : sample.joints[1][j][3] < 2

\* C8: a joint outside the frame counts as absent in the presence test
\* whatever its label, so an instance with every joint outside the frame is
\* removed and no joint outside the frame keeps a visibility above 0; the
\* frame is the image's height and width for tensors [C, H, W] and for
\* arrays [H, W, C]
C8_OutsideIsAbsent ==
    calls >= 1 =>
       /\ \A i \in InstancesOf(Passed) : \A j \in JointsOf(Passed, i) :
             /\ ~InFrame(Passed.image, Passed.joints[i][j])
                   => ~Masks.visible_joints_mask[i][j]
             /\ Masks.outside_image_mask[i][j] = ~InFrame(Passed.image, Passed.joints[i][j])
       /\ \A i \in InstancesOf(Passed) : AllOutside(Passed, i) => ~Masks.keep_mask[i]
       /\ \A i \in InstancesOf(sample) : \A j \in JointsOf(sample, i) :
             ~InFrame(sample.image, sample.joints[i][j]) => sample.joints[i][j][3] = 0

C8_Witness ==
    /\ calls = 1
    /\ Passed.image.is_tensor
    /\ Len(Passed.joints) = 1
    /\ AllOutside(Passed, 1)
    /\ \A j \in JointsOf(Passed, 1) : Passed.joints[1][j][3] = 2
    /\ Len(sample.joints) = 0

C10_PrunedConsistently ==
    calls >= 1 =>
       LET m == Len(sample.joints)
           from(k) == Survivor(Masks.keep_mask, k)
       IN /\ m = Cardinality({i \in InstancesOf(Passed) : Masks.keep_mask[i]})
          /\ m <= Len(Passed.joints)
          /\ Len(sample.is_crowd) = m
          /\ IsNone(sample.bboxes) = IsNone(Passed.bboxes)
          /\ IsNone(sample.areas) = IsNone(Passed.areas)
          /\ ~IsNone(sample.bboxes) => Len(Value(sample.bboxes)) = m
          /\ ~IsNone(sample.areas) => Len(Value(sample.areas)) = m
          /\ \A k \in 1..m :
                /\ \A j \in JointsOf(sample, k) : \A c \in 1..2 :
                      sample.joints[k][j][c] = Passed.joints[from(k)][j][c]
                /\ Len(sample.joints[k]) = Len(Passed.joints[from(k)])
                /\ sample.is_crowd[k] = Passed.is_crowd[from(k)]
                /\ ~IsNone(sample.bboxes)
                      => Value(sample.bboxes)[k] = Value(Passed.bboxes)[from(k)]
                /\ ~IsNone(sample.areas)
                      => Value(sample.areas)[k] = Value(Passed.areas)[from(k)]

C10_Witness ==
    /\ calls = 1
    /\ Len(Passed.joints) = 2
    /\ ~Masks.keep_mask[1]
    /\ Masks.keep_mask[2]
    /\ ~IsNone(sample.bboxes)
    /\ ~IsNone(sample.areas)
    /\ Value(Passed.areas)[1] # Value(Passed.areas)[2]
    /\ Value(sample.bboxes) = <<Value(Passed.bboxes)[2]>>

----------------------------------------------------------------------------
(* Per-instance arrays of the wrong length *)

\* some per-instance array of s has not one entry per instance of s.joints
Mismatched(s) ==
    \/ Len(s.is_crowd) # Len(s.joints)
    \/ ~IsNone(s.bboxes) /\ Len(Value(s.bboxes)) # Len(s.joints)
    \/ ~IsNone(s.areas) /\ Len(Value(s.areas)) # Len(s.joints)

\* C11: a sample whose is_crowd, bboxes or areas has a length other than the
\* number of instances makes filter_joints raise, for every
\* min_instance_area and also for a length-1 areas array that broadcasts
\* against the mask; filter_joints never returns for such a sample, so it
\* returns no sample with clipped, padded or broadcast arrays
C11_MismatchRaises ==
    /\ Mismatched(sample)
          => /\ calls = 0
             /\ \/ pc = "error"
                \/ pc = "filter_only" /\ ENABLED FilterRaises /\ ~ENABLED FilterJoints
    /\ ~IsNone(before) => ~Mismatched(Passed) /\ ~Mismatched(sample)

\* a length-1 areas array of a sample with two instances got through the
\* in-place `&=` and the call raised where the areas are pruned
C11_Witness ==
    /\ pc = "error"
    /\ min_instance_area > 0
    /\ Len(sample.joints) = 2
    /\ ~IsNone(sample.areas)
    /\ Len(Value(sample.areas)) = 1
    /\ Value(result).raised = 140

----------------------------------------------------------------------------
(* __getitem__ *)

Returned == Value(result)
ExtrasKeys == {"gt_joints", "gt_bboxes", "gt_areas", "gt_is_crowd"}

\* the sample that went into filter_joints is the sample loaded at `index`
\* after every transform of the list, in list order
TransformedPrimary(s) ==
    s.source_index = index /\ s.applied = Ids(transforms)

C13_EmptyArraysAll ==
    pc = "done" /\ Len(sample.joints) = 0
       => /\ generated = <<sample>>
          /\ sample.is_crowd = <<>>
          /\ sample.bboxes = Some(<<>>)
          /\ sample.areas = Some(<<>>)

\* C13: in a successful __getitem__ the steps happen in the order load,
\* transforms, filter, target generation, the generator is called exactly
\* once, on the filtered sample, also when no instance remains; then joints
\* and is_crowd have length 0, and bboxes and areas have length 0 when the
\* sample has them and stay None when it has not
C13_OrderAndEmptySample ==
    /\ stack # <<>> => loads >= 1 /\ calls = 0 /\ generated = <<>>
    /\ calls > 0 => /\ calls = 1
                    /\ stack = <<>>
                    /\ TransformedPrimary(Passed)
                    /\ sample = filter_joints(Passed, min_instance_area)
    /\ generated # <<>> => calls = 1 /\ pc = "done"
    /\ pc = "done" => /\ generated = <<sample>>
                      /\ Returned.targets = target_generator(sample)
    /\ pc = "done" /\ Len(sample.joints) = 0
          => /\ sample.is_crowd = <<>>
             /\ sample.bboxes = IF IsNone(Passed.bboxes) THEN None ELSE Some(<<>>)
             /\ sample.areas = IF IsNone(Passed.areas) THEN None ELSE Some(<<>>)

\* no instance remains of a sample without areas: the generator was called on
\* the empty sample, whose areas are still None
C13_Witness ==
    /\ pc = "done"
    /\ Len(Passed.joints) = 2
    /\ Len(sample.joints) = 0
    /\ generated = <<sample>>
    /\ sample.bboxes = Some(<<>>)
    /\ sample.areas = None

----------------------------------------------------------------------------
(* KeypointsCollate.__call__ on one batch *)

\* the instance counts of the samples of a batch
InstanceCounts == {0, 1}

\* element i of a batch: (image, target, extra), where extra binds the keys
\* of `keys` to the sample's own per-instance values
BatchElement(i, hw, count, keys) ==
    [image   |-> [shape |-> <<3, hw[1], hw[2]>>],
     targets |-> [of_sample |-> i],
     extras  |-> [k \in keys |-> [key |-> k, of_sample |-> i, instances |-> count]]]

\* default_collate(items) raises when the items differ in shape
StackFails(items) ==
    \E i, j \in 1..Len(items) : items[i].shape # items[j].shape

\* default_collate(items): the items stacked along a new leading dimension
default_collate(items) == [stacked |-> items]

\* the line of __call__ that raises on batch b, 0 when none does: extras[0]
\* of an empty batch, dic[k] of a dict without the key k of extras[0], or the
\* stacking of images of different shapes
CollateFailingLine(b) ==
    IF Len(b) = 0 THEN 174
    ELSE IF \E i \in 1..Len(b) : ~(DOMAIN b[1].extras \subseteq DOMAIN b[i].extras)
         THEN 174
    ELSE IF StackFails([i \in 1..Len(b) |-> b[i].image]) THEN 176
    ELSE 0

\* {k: [dic[k] for dic in extras] for k in extras[0]}
TransposeExtras(b) ==
    [k \in DOMAIN b[1].extras |-> [i \in 1..Len(b) |-> b[i].extras[k]]]

InitCollate ==
    /\ \E size \in 0..MaxBatch :
          \E hw \in [1..size -> ImageSizes], count \in [1..size -> InstanceCounts] :
             \E keys \in [1..size -> SUBSET ExtrasKeys] :
                batch = [i \in 1..size |-> BatchElement(i, hw[i], count[i], keys[i])]
    /\ collated = None
    /\ pc = "collate"
    /\ transforms = <<>>
    /\ min_instance_area = 0
    /\ dataset_len = 1
    /\ index = 0
    /\ stack = <<>>
    /\ sample = None
    /\ loads = 0
    /\ drawn = <<>>
    /\ invoked = None
    /\ locals = None
    /\ before = None
    /\ calls = 0
    /\ result = None
    /\ generated = <<>>

\* return images, targets, extras
Collate ==
    /\ pc = "collate"
    /\ CollateFailingLine(batch) = 0
    /\ collated' = Some([images  |-> default_collate([i \in 1..Len(batch) |-> batch[i].image]),
                         targets |-> default_collate([i \in 1..Len(batch) |-> batch[i].targets]),
                         extras  |-> TransposeExtras(batch)])
    /\ pc' = "done"
    /\ UNCHANGED <<batch, generated,
                   transforms, min_instance_area, dataset_len, index, stack, sample,
                   loads, drawn, invoked, locals, before, calls, result>>

\* __call__ raises: the exception leaves the call without a return value
CollateRaises ==
    /\ pc = "collate"
    /\ CollateFailingLine(batch) # 0
    /\ pc' = "error"
    /\ result' = Some([raised |-> CollateFailingLine(batch)])
    /\ UNCHANGED <<collate_vars, generated,
                   transforms, min_instance_area, dataset_len, index, stack, sample,
                   loads, drawn, invoked, locals, before, calls>>

NextCollate == Collate \/ CollateRaises

SpecCollate == InitCollate /\ [][NextCollate]_vars

Collated == Value(collated)

\* C14: the extras dict KeypointsCollate returns for a batch of size B binds
\* every key to the list of the B per-sample values in batch order, element
\* i being the value of sample i, and its key set is the key set of every
\* sample's extras dict: a batch whose samples differ in their keys is never
\* merged with keys dropped
C14_ExtrasTransposed ==
    ~IsNone(collated)
       => /\ \A k \in DOMAIN Collated.extras :
                /\ Len(Collated.extras[k]) = Len(batch)
                /\ \A i \in 1..Len(batch) :
                      /\ k \in DOMAIN batch[i].extras
                      /\ Collated.extras[k][i] = batch[i].extras[k]
          /\ \A i \in 1..Len(batch) :
                DOMAIN batch[i].extras = DOMAIN Collated.extras

----------------------------------------------------------------------------
(* The additional_samples slot *)

============================================================================
